---- MODULE Spec2Model ----
(***************************************************************************)
(* monobd: the model registry, the variant presets, the export naming      *)
(* scheme of Model.export_parts / Model.export and the bdrender driver.    *)
(*                                                                         *)
(* Names (labels, part names, file names, import paths) are strings; a     *)
(* dict is a sequence of [key, value] records in insertion order; an       *)
(* assembly is a sequence of nodes [label, parent] whose first node is the *)
(* root and whose children are ordered by index.                           *)
(***************************************************************************)
EXTENDS Integers, Sequences, FiniteSets, TLC

VARIABLES
    entry,        \* which entry point the process is running
    inst,         \* the Model instance at hand (a test's model)
    files,        \* names of the files in the destination directory
    ret,          \* the outcome of the last call
    registry,     \* the ModelRegistry: dict name -> import path
    imported,     \* module paths imported by import_module
    bd,           \* the state of ModelRenderer.__call__ (bdrender)
    rn,           \* the Runner thread, its Condition and the clock (watch, bdview)
    vw            \* bdview's Watcher: viewer, tracked modules, renders

vars == <<entry, inst, files, ret, registry, imported, bd, rn, vw>>

\* ------------------------------------------------------------------ bounds

\* Largest number of nodes of a generated assembly tree.
MaxNodes == 4

\* Labels of the parts of a generated assembly; "a.b" contains the separator.
Labels == {"a", "b", "a.b"}

\* ------------------------------------------------------------------- dicts

Return(v) == [kind |-> "return", value |-> v, exc |-> ""]

Raise(msg) == [kind |-> "raise", value |-> <<>>, exc |-> msg]

DictHas(d, k) == \E i \in 1..Len(d) : d[i].key = k

DictGet(d, k) == d[CHOOSE i \in 1..Len(d) : d[i].key = k].value

\* d[k] = v: an existing key keeps its position, a new key is appended.
DictSet(d, k, v) ==
    IF DictHas(d, k)
    THEN [i \in 1..Len(d) |-> IF d[i].key = k THEN [key |-> k, value |-> v] ELSE d[i]]
    ELSE Append(d, [key |-> k, value |-> v])

DictKeys(d) == [i \in 1..Len(d) |-> d[i].key]

Range(s) == {s[i] : i \in 1..Len(s)}

\* ---------------------------------------------------------------- assembly

Node(l, p) == [label |-> l, parent |-> p]

\* indices of the children of node n, in order
Children(t, n) == {i \in 1..Len(t) : t[i].parent = n}

is_leaf(t, n) == Children(t, n) = {}

RECURSIVE PreOrder(_, _)
RECURSIVE PreOrderAll(_, _)
PreOrderAll(t, todo) ==
    IF todo = {} THEN <<>>
    ELSE LET c == CHOOSE x \in todo : \A y \in todo : x <= y
         IN  PreOrder(t, c) \o PreOrderAll(t, todo \ {c})

PreOrder(t, n) == <<n>> \o PreOrderAll(t, Children(t, n))

\* assembly.leaves: the nodes without children, in pre-order
leaves(t) == SelectSeq(PreOrder(t, 1), LAMBDA n : is_leaf(t, n))

\* part.path: the nodes from the root down to n
RECURSIVE path(_, _)
path(t, n) == IF t[n].parent = 0 THEN <<n>> ELSE Append(path(t, t[n].parent), n)

RECURSIVE Join(_, _)
Join(sep, parts) ==
    IF Len(parts) = 0 THEN ""
    ELSE IF Len(parts) = 1 THEN parts[1]
    ELSE parts[1] \o sep \o Join(sep, Tail(parts))

\* ----------------------------------------------------------------- classes

KV(k, v) == [key |-> k, value |-> v]

\* The Model subclasses of the repository and of its tests, and TreeModel: a
\* subclass that keeps the base class's variants() and whose assembly is any
\* tree labelled with its model_name at the root.
ModelClasses ==
    {"SimpleTestModel", "VariantTestModel", "ExampleModel", "AVRack",
     "PoopBagDispenserWallMount", "ScrewHandle", "ESP3DP", "TreeModel"}

\* cls.model_name, set by __init_subclass__ from the class statement's name=
model_name(c) ==
    CASE c = "SimpleTestModel" -> "testmodel"
      [] c = "VariantTestModel" -> "variantmodel"
      [] c = "ExampleModel" -> "example"
      [] c = "AVRack" -> "avrack"
      [] c = "PoopBagDispenserWallMount" -> "poop_bag_dispenser_wall_mount"
      [] c = "ScrewHandle" -> "screw_handle"
      [] c = "ESP3DP" -> "esp-3dp"
      [] c = "TreeModel" -> "m"

\* the dataclass fields of a class besides variant_name, with their defaults
defaults(c) ==
    CASE c = "VariantTestModel" -> <<KV("size", "10")>>
      [] c = "ExampleModel" -> <<KV("height_factor", "1")>>
      [] c = "AVRack" -> <<KV("simple", "False")>>
      [] c = "PoopBagDispenserWallMount" ->
            <<KV("length", "4*IN"), KV("width", "(2+3/4)*IN"),
              KV("thickness", "(1/8+1/32)*IN"), KV("screw_size", "(3/16)*IN")>>
      [] c = "ScrewHandle" ->
            <<KV("length", "6*IN"), KV("height", "(1+1/4)*IN"),
              KV("thickness", "1/2*IN"), KV("angle", "20"),
              KV("screw_size", "(3/16)*IN"), KV("screw_style", "COUNTER_SINK"),
              KV("screw_hole_depth", "0"),
              KV("screw_hole_countersink_angle", "60")>>
      [] c = "ESP3DP" ->
            <<KV("screw_hole_d", "4.5"), KV("base_thickness", "2.6"),
              KV("pylon_height", "6"), KV("border", "1.0"),
              KV("mounting_screw_hole_d", "4.5"), KV("edge_chamfer", "0.8"),
              KV("base_style", "hex")>>
      [] OTHER -> <<>>

\* cls.variants(): preset name -> constructor keyword arguments
variants(c) ==
    CASE c = "VariantTestModel" ->
            <<KV("", <<>>), KV("large", <<KV("size", "20")>>),
              KV("small", <<KV("size", "5")>>)>>
      [] c = "ExampleModel" ->
            <<KV("default", <<>>), KV("tall", <<KV("height_factor", "2")>>)>>
      [] c = "AVRack" ->
            <<KV("default", <<>>), KV("simple", <<KV("simple", "True")>>)>>
      [] c = "PoopBagDispenserWallMount" -> <<KV("default", <<>>)>>
      [] c = "ScrewHandle" ->
            <<KV("default", <<>>),
              KV("tray", <<KV("screw_hole_depth", "(1/4+1/16)*IN"),
                           KV("screw_size", "(9/64)*IN"),
                           KV("screw_hole_countersink_angle", "None")>>),
              KV("thin", <<KV("thickness", "9*MM"),
                           KV("screw_hole_countersink_angle", "None")>>)>>
      [] c = "ESP3DP" -> <<KV("default", <<>>)>>
      [] OTHER -> <<>>

\* The label tree a class's assembly property builds (the solids are the CAD
\* kernel's); every assembly of the repository labels its root model_name.
SingleLeaf(c, l) == <<Node(model_name(c), 0), Node(l, 1)>>

ExampleAssembly ==
    <<Node(model_name("ExampleModel"), 0), Node("orange_box", 1), Node("green_box", 1)>>

RackFrame == <<Node("frame", 1), Node("half-left", 2), Node("half-right", 2)>>

\* RackTray(label=...) attached under node p, its own index being n
RackTray(l, p, n) == <<Node(l, p), Node("body", n), Node("back", n)>>

AVRackAssembly ==
    <<Node(model_name("AVRack"), 0)>> \o RackFrame \o <<Node("trays", 1)>>
        \o RackTray("ethernet-switch", 5, 6) \o RackTray("roku", 5, 9)
        \o RackTray("hdmi-duplicator", 5, 12)

assembly(c) ==
    CASE c = "SimpleTestModel" -> SingleLeaf(c, "box")
      [] c = "VariantTestModel" -> SingleLeaf(c, "box")
      [] c = "ExampleModel" -> ExampleAssembly
      [] c = "AVRack" -> AVRackAssembly
      [] c = "PoopBagDispenserWallMount" -> SingleLeaf(c, "dispenser")
      [] c = "ScrewHandle" -> SingleLeaf(c, "handle")
      [] c = "ESP3DP" -> SingleLeaf(c, "base")

\* The assemblies a TreeModel may build: every ordered tree of at most
\* MaxNodes nodes, rooted at model_name, with the other labels from Labels.
Trees ==
    UNION {
        { [i \in 1..n |-> IF i = 1 THEN Node(model_name("TreeModel"), 0)
                                   ELSE Node(lb[i], pa[i])] :
            lb \in [2..n -> Labels],
            pa \in {p \in [2..n -> 1..n] : \A i \in 2..n : p[i] < i} }
        : n \in 1..MaxNodes }

RECURSIVE ApplyParams(_, _)
ApplyParams(fields, params) ==
    IF Len(params) = 0 THEN fields
    ELSE ApplyParams(DictSet(fields, params[1].key, params[1].value), Tail(params))

\* cls(variant_name=vn, **params): the dataclass constructor
New(c, vn, params, t) ==
    [cls |-> c, variant_name |-> vn,
     fields |-> ApplyParams(defaults(c), params), assembly |-> t]

NewOf(c, vn, params) == New(c, vn, params, assembly(c))

\* no instance at hand
NoInst == [cls |-> "", variant_name |-> "", fields |-> <<>>, assembly |-> <<>>]

\* ------------------------------------------------------- variant selection

\* Model.variant(variant_name, default); vn is [none, s]: None or the string s
OrEmpty(vn) == IF vn.none THEN "" ELSE vn.s

Str(s) == [none |-> FALSE, s |-> s]

None == [none |-> TRUE, s |-> ""]

\* Model.variant constructing the instance without the preset's arguments
variant_drops_preset(c, vn, default) ==
    LET variant_name == OrEmpty(vn)
        vs == variants(c)
    IN  IF default /\ ~DictHas(vs, variant_name)
        THEN Return(NewOf(c, "", <<>>))
        ELSE IF ~DictHas(vs, variant_name)
        THEN Raise("KeyError: " \o variant_name)
        ELSE Return(NewOf(c, variant_name, <<>>))

variant(c, vn, default) ==
    LET variant_name == OrEmpty(vn)
        vs == variants(c)
    IN  IF default /\ ~DictHas(vs, variant_name)
        THEN Return(NewOf(c, "", <<>>))
        ELSE IF ~DictHas(vs, variant_name)
        THEN Raise("KeyError: " \o variant_name)
        ELSE Return(NewOf(c, variant_name, DictGet(vs, variant_name)))

\* the generator's loop over variants.items() from position i on
RECURSIVE all_variants_loop(_, _, _)
all_variants_loop(c, vs, i) ==
    IF i > Len(vs) THEN <<>>
    ELSE <<NewOf(c, vs[i].key, vs[i].value)>> \o all_variants_loop(c, vs, i + 1)

\* all_variants without the branch for a class that has no variants
all_variants_nothing_when_empty(c) == all_variants_loop(c, variants(c), 1)

\* Model.all_variants(): the sequence of instances the generator yields
all_variants(c) ==
    LET vs == variants(c)
    IN  IF Len(vs) = 0 THEN <<NewOf(c, "", <<>>)>>
        ELSE all_variants_loop(c, vs, 1)

\* ------------------------------------------------------------------ export

\* _part_fq_name with the suffix put on unconditionally
part_fq_name_always_suffix(self, n) ==
    LET t == self.assembly
        p == path(t, n)
        path_parts == [i \in 1..Len(p) |->
            IF i = 1 THEN t[p[i]].label \o "-" \o self.variant_name
            ELSE t[p[i]].label]
    IN  Join(".", path_parts)

\* _part_fq_name with the suffix put on the part's own label
part_fq_name_suffix_last(self, n) ==
    LET t == self.assembly
        p == path(t, n)
        path_parts == [i \in 1..Len(p) |->
            IF i = Len(p) /\ self.variant_name # ""
            THEN t[p[i]].label \o "-" \o self.variant_name
            ELSE t[p[i]].label]
    IN  Join(".", path_parts)

\* _part_fq_name with no variant name in it
part_fq_name_without_variant(self, n) ==
    LET t == self.assembly
        p == path(t, n)
        path_parts == [i \in 1..Len(p) |-> t[p[i]].label]
    IN  Join(".", path_parts)

\* _part_fq_name(part) of Model.export_parts
part_fq_name(self, n) ==
    LET t == self.assembly
        p == path(t, n)
        path_parts == [i \in 1..Len(p) |->
            IF i = 1 /\ self.variant_name # ""
            THEN t[p[i]].label \o "-" \o self.variant_name
            ELSE t[p[i]].label]
    IN  Join(".", path_parts)

\* the for loop of export_parts without its duplicate test
RECURSIVE export_parts_loop_overwriting(_, _, _, _)
export_parts_loop_overwriting(self, ls, i, d) ==
    IF i > Len(ls) THEN Return(d)
    ELSE export_parts_loop_overwriting(self, ls, i + 1,
            DictSet(d, part_fq_name(self, ls[i]), ls[i]))

\* the for loop of export_parts over assembly.leaves from position i on
RECURSIVE export_parts_loop(_, _, _, _)
export_parts_loop(self, ls, i, d) ==
    IF i > Len(ls) THEN Return(d)
    ELSE LET part_name == part_fq_name(self, ls[i])
         IN  IF DictHas(d, part_name)
             THEN Raise("Duplicate part name " \o part_name)
             ELSE export_parts_loop(self, ls, i + 1, DictSet(d, part_name, ls[i]))

\* export_parts without the single-leaf branch
export_parts_no_single(self) ==
    LET assembly_part_name == part_fq_name(self, 1)
    IN  export_parts_loop(self, leaves(self.assembly), 1,
                          <<KV(assembly_part_name, 1)>>)

\* Model.export_parts: dict part name -> part (a node of the assembly)
export_parts(self) ==
    LET assembly_part_name == part_fq_name(self, 1)
        d == <<KV(assembly_part_name, 1)>>
        ls == leaves(self.assembly)
    IN  IF Len(ls) = 1
        THEN Return(DictSet(d, assembly_part_name, ls[1]))
        ELSE export_parts_loop(self, ls, 1, d)

\* the files export's loop writes when the STL of every entry is written,
\* leaf or not
export_writes_stl_every_entry(self, d, step, stl) ==
    {d[i].key \o ".step" : i \in {j \in 1..Len(d) : step}}
        \cup {d[i].key \o ".stl" : i \in {j \in 1..Len(d) : stl}}

\* the files one pass of export's loop writes, whatever the stl flag says
export_writes_stl_always(self, d, step, stl) ==
    {d[i].key \o ".step" : i \in {j \in 1..Len(d) : step}}
        \cup {d[i].key \o ".stl" :
                i \in {j \in 1..Len(d) : is_leaf(self.assembly, d[j].value)}}

\* the files export's loop over export_parts.items() writes
export_writes(self, d, step, stl) ==
    {d[i].key \o ".step" : i \in {j \in 1..Len(d) : step}}
        \cup {d[i].key \o ".stl" :
                i \in {j \in 1..Len(d) : stl /\ is_leaf(self.assembly, d[j].value)}}

\* Model.export(dest, step, stl) on a destination holding the files fs:
\* the outcome and the files the destination holds afterwards
export(self, fs, step, stl) ==
    LET ep == export_parts(self)
    IN  IF ep.kind = "raise" THEN [kind |-> "raise", exc |-> ep.exc, files |-> fs]
        ELSE [kind |-> "return", exc |-> "",
              files |-> fs \cup export_writes(self, ep.value, step, stl)]

\* ---------------------------------------------------------------- registry

\* MODELS of monobd/__init__.py
MODELS ==
    <<KV("avrack", "monobd.models.avrack.model.AVRack"),
      KV("example", "monobd.models.example.ExampleModel"),
      KV("poop_bag_dispenser_wall_mount", "monobd.models.dog.PoopBagDispenserWallMount"),
      KV("screw_handle", "monobd.models.hardware.ScrewHandle"),
      KV("esp_3dp", "monobd.models.pcb.ESP3DP")>>

\* The importable modules and the classes each one binds: the class
\* statements of the model modules, and the names models/__init__.py imports
\* from the dog, hardware and pcb packages.
Modules ==
    <<KV("monobd.models.avrack.model", {"AVRack"}),
      KV("monobd.models.example", {"ExampleModel"}),
      KV("monobd.models.dog", {"PoopBagDispenserWallMount"}),
      KV("monobd.models.hardware", {"ScrewHandle"}),
      KV("monobd.models.pcb", {"ESP3DP"})>>

\* import_path.rsplit(".", 1): the text before and after the last dot. The
\* part after the last dot holds no dot, so the split is the only pair
\* <<m, c>> with c dot-free and m + "." + c = import_path; the candidates are
\* the module paths and class names above.
rsplit(import_path) ==
    LET pairs == {pr \in Range(DictKeys(Modules)) \X ModelClasses :
                    pr[1] \o "." \o pr[2] = import_path}
    IN  IF pairs = {} THEN <<import_path>> ELSE CHOOSE pr \in pairs : TRUE

\* dict.get(name): the value, or None (here "") for a missing key
RegistryGet(reg, name) == IF DictHas(reg, name) THEN DictGet(reg, name) ELSE ""

\* get_model looking the name up with self[model_name]'s wording for a miss
\* and importing whatever path is registered
get_model_unchecked(reg, name, imp) ==
    LET import_path == RegistryGet(reg, name)
        parts == rsplit(import_path)
    IN  IF Len(parts) < 2
        THEN [kind |-> "raise", value |-> "", imported |-> imp,
              exc |-> "ValueError: not enough values to unpack"]
        ELSE [kind |-> "return", value |-> parts[2], exc |-> "",
              imported |-> imp \cup {parts[1]}]

\* ModelRegistry.get_model(model_name), with imp the modules imported so far
get_model(reg, name, imp) ==
    LET import_path == RegistryGet(reg, name)
        parts == rsplit(import_path)
    IN  IF import_path = ""
        THEN [kind |-> "raise", value |-> "", imported |-> imp,
              exc |-> "KeyError: Model not found: " \o name]
        ELSE IF Len(parts) < 2
        THEN [kind |-> "raise", value |-> "", imported |-> imp,
              exc |-> "ValueError: not enough values to unpack"]
        ELSE IF ~DictHas(Modules, parts[1])
        THEN [kind |-> "raise", value |-> "", imported |-> imp,
              exc |-> "ModuleNotFoundError: " \o parts[1]]
        ELSE IF parts[2] \notin DictGet(Modules, parts[1])
        THEN [kind |-> "raise", value |-> "", imported |-> imp \cup {parts[1]},
              exc |-> "AttributeError: " \o parts[2]]
        ELSE IF parts[2] \notin ModelClasses
        THEN [kind |-> "raise", value |-> "", imported |-> imp \cup {parts[1]},
              exc |-> "AssertionError"]
        ELSE [kind |-> "return", value |-> parts[2], exc |-> "",
              imported |-> imp \cup {parts[1]}]

\* ---------------------------------------------------------------- bdrender

\* render_variants with Model.variant's default left at True
render_variants_with_default(c, variant_name) ==
    IF variant_name # ""
    THEN LET r == variant(c, Str(variant_name), TRUE)
         IN  IF r.kind = "raise" THEN r ELSE Return(<<r.value>>)
    ELSE Return(all_variants(c))

\* ModelRenderer.render_variants(model_class): what the generator yields, or
\* the exception its first step raises
render_variants(c, variant_name) ==
    IF variant_name # ""
    THEN LET r == variant(c, Str(variant_name), FALSE)
         IN  IF r.kind = "raise" THEN r ELSE Return(<<r.value>>)
    ELSE Return(all_variants(c))

\* render_models going on to --all after the named model
render_models_next_no_return(args, reg, mi) ==
    IF args.model_name # "" /\ mi = 0 THEN args.model_name
    ELSE IF args.render_all /\ mi - (IF args.model_name # "" THEN 1 ELSE 0) < Len(reg)
    THEN reg[mi - (IF args.model_name # "" THEN 1 ELSE 0) + 1].key
    ELSE ""

\* ModelRenderer.render_models: the registry name the generator looks up at
\* its step number mi + 1, or "" when the generator is exhausted
render_models_next(args, reg, mi) ==
    IF args.model_name # ""
    THEN (IF mi = 0 THEN args.model_name ELSE "")
    ELSE IF args.render_all /\ mi < Len(reg) THEN reg[mi + 1].key
    ELSE ""

BdIdle ==
    [pc |-> "idle", args |-> [model_name |-> "", variant_name |-> "", render_all |-> FALSE],
     mi |-> 0, models |-> <<>>, cur |-> "", started |-> FALSE, vq |-> <<>>,
     model |-> NoInst, log |-> <<>>, wrote |-> <<>>, exc |-> ""]

\* the command lines tried: model, variant, --all
ArgModelNames == {"", "example", "avrack", "esp_3dp", "esp-3dp", "blank"}

ArgVariantNames == {"", "default", "tall", "bogus"}

\* no Runner thread exists
RnOff == [pc |-> "off"]

\* no bdview Watcher exists
VwOff == [pc |-> "off"]

\* ----------------------------------------------------------------- actions

Init ==
    /\ entry = "idle"
    /\ inst = NoInst
    /\ files = {}
    /\ ret = [op |-> "none"]
    /\ registry = MODELS
    /\ imported = {}
    /\ bd = BdIdle
    /\ rn = RnOff
    /\ vw = VwOff

\* TreeModel(variant_name=vn) with the assembly t
Construct(t, vn) ==
    /\ entry = "idle"
    /\ entry' = "model"
    /\ inst' = New("TreeModel", vn, <<>>, t)
    /\ ret' = [op |-> "new"]
    /\ UNCHANGED <<files, registry, imported, bd, rn, vw>>

\* cls.variant(vn, default)
CallVariant(c, vn, default) ==
    /\ entry = "idle"
    /\ entry' = "model"
    /\ LET r == variant(c, vn, default)
       IN  /\ ret' = [op |-> "variant", cls |-> c, name |-> vn, default |-> default,
                      kind |-> r.kind, value |-> r.value, exc |-> r.exc]
           /\ inst' = IF r.kind = "return" THEN r.value ELSE NoInst
    /\ UNCHANGED <<files, registry, imported, bd, rn, vw>>

\* list(cls.all_variants())
CallAllVariants(c) ==
    /\ entry = "idle"
    /\ entry' = "model"
    /\ ret' = [op |-> "all_variants", cls |-> c, value |-> all_variants(c)]
    /\ UNCHANGED <<inst, files, registry, imported, bd, rn, vw>>

\* one of the instances all_variants yielded is taken up
TakeVariant(i) ==
    /\ entry = "model"
    /\ ret.op = "all_variants"
    /\ i \in 1..Len(ret.value)
    /\ inst' = ret.value[i]
    /\ ret' = [op |-> "new"]
    /\ UNCHANGED <<entry, files, registry, imported, bd, rn, vw>>

\* inst.export_parts
CallExportParts ==
    /\ entry = "model"
    /\ inst # NoInst
    /\ LET r == export_parts(inst)
       IN  ret' = [op |-> "export_parts", kind |-> r.kind, value |-> r.value,
                   exc |-> r.exc]
    /\ UNCHANGED <<entry, inst, files, registry, imported, bd, rn, vw>>

\* inst.export(dest, step, stl)
CallExport(step, stl) ==
    /\ entry = "model"
    /\ inst # NoInst
    /\ LET r == export(inst, files, step, stl)
       IN  /\ ret' = [op |-> "export", step |-> step, stl |-> stl, before |-> files,
                      kind |-> r.kind, exc |-> r.exc]
           /\ files' = r.files
    /\ UNCHANGED <<entry, inst, registry, imported, bd, rn, vw>>

\* the temp_dir fixture: a fresh, empty destination
NewDest ==
    /\ entry = "model"
    /\ files # {}
    /\ files' = {}
    /\ ret' = [op |-> "none"]
    /\ UNCHANGED <<entry, inst, registry, imported, bd, rn, vw>>

\* registry[name] = path: ModelRegistry is a dict and takes any entry
Register(name, import_path) ==
    /\ entry = "idle"
    /\ entry' = "registered"
    /\ registry' = DictSet(registry, name, import_path)
    /\ UNCHANGED <<inst, files, ret, imported, bd, rn, vw>>

\* registry.get_model(name)
CallGetModel(name) ==
    /\ entry \in {"idle", "registered", "registry"}
    /\ entry' = "registry"
    /\ LET r == get_model(registry, name, imported)
       IN  /\ ret' = [op |-> "get_model", name |-> name, before |-> imported,
                      kind |-> r.kind, value |-> r.value, exc |-> r.exc]
           /\ imported' = r.imported
    /\ UNCHANGED <<inst, files, registry, bd, rn, vw>>

\* bdrender's main(): the arguments are parsed and __call__ starts
BdMain(args) ==
    /\ entry \in {"idle", "registered"}
    /\ entry' = "bdrender"
    /\ bd' = [BdIdle EXCEPT !.pc = "models", !.args = args]
    /\ UNCHANGED <<inst, files, ret, registry, imported, rn, vw>>

\* the outer for asks render_models for the next model class
BdNextModel ==
    /\ entry = "bdrender"
    /\ bd.pc = "models"
    /\ LET name == render_models_next(bd.args, registry, bd.mi)
           r == get_model(registry, name, imported)
       IN  IF name = ""
           THEN /\ bd' = [bd EXCEPT !.pc = "done", !.cur = ""]
                /\ UNCHANGED imported
           ELSE /\ imported' = r.imported
                /\ bd' = IF r.kind = "raise"
                         THEN [bd EXCEPT !.pc = "error", !.exc = r.exc, !.cur = ""]
                         ELSE [bd EXCEPT !.pc = "variants", !.mi = @ + 1,
                                         !.cur = r.value, !.started = FALSE,
                                         !.models = Append(@, r.value)]
    /\ UNCHANGED <<entry, inst, files, ret, registry, rn, vw>>

\* the inner for asks render_variants(model_class) for the next instance
BdNextVariant ==
    /\ entry = "bdrender"
    /\ bd.pc = "variants"
    /\ LET r == render_variants(bd.cur, bd.args.variant_name)
           q == IF bd.started THEN bd.vq ELSE r.value
       IN  IF ~bd.started /\ r.kind = "raise"
           THEN bd' = [bd EXCEPT !.pc = "error", !.exc = r.exc]
           ELSE IF Len(q) = 0
           THEN bd' = [bd EXCEPT !.pc = "models", !.started = FALSE, !.vq = <<>>]
           ELSE bd' = [bd EXCEPT !.pc = "render", !.started = TRUE,
                                 !.model = Head(q), !.vq = Tail(q)]
    /\ UNCHANGED <<entry, inst, files, ret, registry, imported, rn, vw>>

\* the loop body: the model is printed and exported as STEP and STL
BdRender ==
    /\ entry = "bdrender"
    /\ bd.pc = "render"
    /\ LET r == export(bd.model, files, TRUE, TRUE)
           w == export(bd.model, {}, TRUE, TRUE).files
       IN  /\ files' = r.files
           /\ bd' = IF r.kind = "raise"
                    THEN [bd EXCEPT !.pc = "error", !.exc = r.exc,
                                    !.log = Append(@, bd.model),
                                    !.wrote = Append(@, w)]
                    ELSE [bd EXCEPT !.pc = "variants", !.log = Append(@, bd.model),
                                    !.wrote = Append(@, w)]
    /\ UNCHANGED <<entry, inst, ret, registry, imported, rn, vw>>

SourceClasses == ModelClasses \ {"TreeModel"}

VariantArgs == {None} \cup {Str(s) : s \in {"", "default", "tall", "large", "thin", "bogus"}}

Next ==
    \/ \E t \in Trees, vn \in {"", "v"} : Construct(t, vn)
    \/ \E c \in SourceClasses, vn \in VariantArgs, default \in BOOLEAN :
            CallVariant(c, vn, default)
    \/ \E c \in SourceClasses : CallAllVariants(c)
    \/ \E i \in 1..3 : TakeVariant(i)
    \/ CallExportParts
    \/ \E step \in BOOLEAN, stl \in BOOLEAN : CallExport(step, stl)
    \/ NewDest
    \/ Register("blank", "")
    \/ \E name \in ArgModelNames : CallGetModel(name)
    \/ \E m \in ArgModelNames, v \in ArgVariantNames, a \in BOOLEAN :
            BdMain([model_name |-> m, variant_name |-> v, render_all |-> a])
    \/ BdNextModel
    \/ BdNextVariant
    \/ BdRender

Spec == Init /\ [][Next]_vars

\* ------------------------------------------------------------------ Runner
\* The Runner thread of watch.py and of utils/bdview.py, the Condition it
\* shares with trigger() and stop(), and time.time() as an integer clock.
\* The runner holds the Condition from 'with self.condition' on, except
\* while it is inside Condition.wait; wait ends in two steps, as in
\* threading.Condition: the waiter is released (notified) or its timeout
\* expires, and then the Condition is acquired again.

\* the last reading of the clock
MaxTime == 4

\* trigger() calls per run
MaxTriggers == 2

\* the largest --delay
MaxDelay == 2

Programs == {"watch", "bdview"}

\* timeout = None; if tm < next_execute_time: timeout = next_execute_time - tm
wait_timeout(tm, next_execute_time) ==
    IF tm < next_execute_time
    THEN [timed |-> TRUE, timeout |-> next_execute_time - tm]
    ELSE [timed |-> FALSE, timeout |-> 0]

\* the runner runs the callback after every wake-up, notified or not
after_wait_ignoring_notified(exit_is_set, notified) ==
    IF exit_is_set THEN "break" ELSE "callback"

\* what follows 'notified = self.condition.wait(timeout=timeout)'
after_wait(exit_is_set, notified) ==
    IF exit_is_set THEN "break"
    ELSE IF ~notified THEN "callback"
    ELSE "loop"

\* self.next_execute_time = time.time() + self.delay
trigger_time(tm, delay) == tm + delay

\* Runner.__init__ and Thread.start(): run() has not reached its first line
RnStart(prog, delay) ==
    [pc |-> "start", prog |-> prog, delay |-> delay, now |-> 0, held |-> FALSE,
     timed |-> FALSE, deadline |-> 0, gotit |-> FALSE, exit_at_wake |-> FALSE,
     next_execute_time |-> 0, exit_event |-> FALSE, stopped |-> FALSE,
     triggers |-> 0, runs |-> 0, last_trigger |-> -1, unserved |-> FALSE,
     early |-> FALSE, run_after_stop |-> FALSE, run_after_exit_wake |-> FALSE]

\* self.run_callback() is entered
StartCallback(r) ==
    [r EXCEPT !.pc = "callback", !.held = TRUE, !.runs = @ + 1,
              !.unserved = FALSE, !.run_after_stop = @ \/ r.stopped]

\* Condition.notify / notify_all: a waiter inside wait is released
Notify(r) ==
    IF r.pc = "waiting"
    THEN [r EXCEPT !.pc = "woken", !.gotit = TRUE, !.exit_at_wake = r.exit_event]
    ELSE r

RInit ==
    /\ entry = "runner"
    /\ inst = NoInst
    /\ files = {}
    /\ ret = [op |-> "none"]
    /\ registry = MODELS
    /\ imported = {}
    /\ bd = BdIdle
    /\ vw = VwOff
    /\ rn \in {RnStart(p, d) : p \in Programs, d \in 0..MaxDelay}

\* run() takes the Condition; watch.py runs the callback once right away
RunnerRun ==
    /\ entry = "runner" /\ rn.pc = "start"
    /\ rn' = IF rn.prog = "watch" THEN StartCallback(rn)
             ELSE [rn EXCEPT !.pc = "loop", !.held = TRUE]
    /\ UNCHANGED <<entry, inst, files, ret, registry, imported, bd, vw>>

\* the top of 'while True' down to the call of wait, which gives up the
\* Condition
RunnerWait ==
    /\ entry = "runner" /\ rn.pc = "loop"
    /\ LET w == wait_timeout(rn.now, rn.next_execute_time)
       IN  rn' = [rn EXCEPT !.pc = "waiting", !.held = FALSE, !.timed = w.timed,
                            !.deadline = rn.now + w.timeout]
    /\ UNCHANGED <<entry, inst, files, ret, registry, imported, bd, vw>>

\* the timeout of wait expires before any notify released the waiter
WaitTimeout ==
    /\ entry = "runner" /\ rn.pc = "waiting"
    /\ rn.timed /\ rn.now >= rn.deadline
    /\ rn' = [rn EXCEPT !.pc = "woken", !.gotit = FALSE,
                        !.exit_at_wake = rn.exit_event]
    /\ UNCHANGED <<entry, inst, files, ret, registry, imported, bd, vw>>

\* wait takes the Condition again and returns; the exit event is looked at,
\* then notified
RunnerWake ==
    /\ entry = "runner" /\ rn.pc = "woken"
    /\ LET a == after_wait(rn.exit_event, rn.gotit)
       IN  rn' = IF a = "break" THEN [rn EXCEPT !.pc = "exited", !.held = FALSE]
                 ELSE IF a = "loop" THEN [rn EXCEPT !.pc = "loop", !.held = TRUE]
                 ELSE [StartCallback(rn) EXCEPT
                          !.early = @ \/ (rn.last_trigger >= 0
                                            /\ rn.now < rn.last_trigger + rn.delay),
                          !.run_after_exit_wake = @ \/ rn.exit_at_wake]
    /\ UNCHANGED <<entry, inst, files, ret, registry, imported, bd, vw>>

\* run_callback returns (it catches what the target raises)
CallbackEnd ==
    /\ entry = "runner" /\ rn.pc = "callback"
    /\ rn' = [rn EXCEPT !.pc = "loop"]
    /\ UNCHANGED <<entry, inst, files, ret, registry, imported, bd, vw>>

\* trigger(), from the observer thread or from bdview's __call__
Trigger ==
    /\ entry = "runner" /\ ~rn.held
    /\ rn.triggers < MaxTriggers
    /\ trigger_time(rn.now, rn.delay) <= MaxTime
    /\ rn' = [Notify(rn) EXCEPT
                 !.next_execute_time = trigger_time(rn.now, rn.delay),
                 !.triggers = @ + 1, !.last_trigger = rn.now,
                 !.unserved = ~rn.exit_event]
    /\ UNCHANGED <<entry, inst, files, ret, registry, imported, bd, vw>>

\* stop(): self.exit_event.set(), outside the Condition
StopSet ==
    /\ entry = "runner" /\ ~rn.exit_event
    /\ rn' = [rn EXCEPT !.exit_event = TRUE]
    /\ UNCHANGED <<entry, inst, files, ret, registry, imported, bd, vw>>

\* stop(): with self.condition: self.condition.notify_all(); stop returns
StopNotify ==
    /\ entry = "runner" /\ rn.exit_event /\ ~rn.stopped /\ ~rn.held
    /\ rn' = [Notify(rn) EXCEPT !.stopped = TRUE]
    /\ UNCHANGED <<entry, inst, files, ret, registry, imported, bd, vw>>

\* time passes
Tick ==
    /\ entry = "runner" /\ rn.now < MaxTime
    /\ rn' = [rn EXCEPT !.now = @ + 1]
    /\ UNCHANGED <<entry, inst, files, ret, registry, imported, bd, vw>>

\* the steps of the runner thread
RunnerStep == RunnerRun \/ RunnerWait \/ WaitTimeout \/ RunnerWake \/ CallbackEnd

RNext ==
    \/ RunnerRun
    \/ RunnerWait
    \/ WaitTimeout
    \/ RunnerWake
    \/ CallbackEnd
    \/ Trigger
    \/ StopSet
    \/ StopNotify
    \/ Tick

RunnerSpec == RInit /\ [][RNext]_vars

\* the runner thread is scheduled whenever it can take a step, and time
\* goes on
FairRunnerSpec == RunnerSpec /\ WF_vars(RunnerStep) /\ WF_vars(Tick)

\* ------------------------------------------------------------------ bdview
\* utils/bdview.py's Watcher: the ocp_viewer context manager, and the
\* callback the runner runs (reload_modules, render, export); watch.py's
\* callback beside it.  Processes are "old" (a viewer that was listening on
\* the OCP port before bdview started) and "new" (the one Popen starts);
\* dotted module names are sequences of their components.

\* for _ in range(100)
MaxProbes == 100

\* callback runs per session
MaxRuns == 2

\* names that may be in sys.modules; "monobdx" begins with "monobd" but is
\* no module of the package
ModuleNames ==
    {<<"monobd">>, <<"monobd", "common">>, <<"monobd", "models">>, <<"monobdx">>}

\* m == mn or m.startswith(f"{mn}.")
is_own_module(m, mn) == m = <<mn>> \/ (Len(m) > 1 /\ m[1] = mn)

\* what reload(mod) does: returns, raises ModuleNotFoundError, or raises
\* something else (a SyntaxError in the edited file, say)
ReloadOutcomes == {"ok", "ModuleNotFoundError", "SyntaxError"}

\* the first loop of reload_modules with a newly seen module put in front
RECURSIVE track_modules_newest_first(_, _, _)
track_modules_newest_first(modules, sys_modules, mn) ==
    IF sys_modules = <<>> THEN modules
    ELSE LET m == Head(sys_modules)
             seen == \E i \in 1..Len(modules) : modules[i] = m
         IN  track_modules_newest_first(
                 IF is_own_module(m, mn) /\ ~seen THEN <<m>> \o modules ELSE modules,
                 Tail(sys_modules), mn)

\* the first loop of reload_modules: self.modules gains, in sys.modules
\* order, the package's modules it does not hold yet
RECURSIVE track_modules(_, _, _)
track_modules(modules, sys_modules, mn) ==
    IF sys_modules = <<>> THEN modules
    ELSE LET m == Head(sys_modules)
             seen == \E i \in 1..Len(modules) : modules[i] = m
         IN  track_modules(
                 IF is_own_module(m, mn) /\ ~seen THEN Append(modules, m) ELSE modules,
                 Tail(sys_modules), mn)

\* outcomes are given for the modules there are, "ok" beyond them
Canonical(o, n) == \A i \in DOMAIN o : i > n => o[i] = "ok"

\* the modules reload() is called on, in order, when the outcomes are o and
\* the outcomes in 'caught' are swallowed: up to the first one that is not
reload_loop(mods, o, caught) ==
    LET bad == {i \in 1..Len(mods) : o[i] \notin caught \cup {"ok"}}
        stop == IF bad = {} THEN Len(mods)
                ELSE CHOOSE i \in bad : \A j \in bad : i <= j
    IN  [kind |-> IF bad = {} THEN "return" ELSE "raise",
         exc |-> IF bad = {} THEN "" ELSE o[stop],
         reloaded |-> SubSeq(mods, 1, stop)]

\* bdview's reload_modules
reload_modules(modules, sys_modules, o) ==
    LET tracked == track_modules(modules, sys_modules, "monobd")
        r == reload_loop(tracked, o, {"ModuleNotFoundError"})
    IN  [kind |-> r.kind, exc |-> r.exc, modules |-> tracked, reloaded |-> r.reloaded]

\* the loop at the head of watch.py's run_callback
watch_reload(sys_modules, o) ==
    reload_loop(SelectSeq(sys_modules, LAMBDA m : is_own_module(m, "monobd")), o, {})

\* Model._models[name]
models_get(loaded, name) ==
    IF \E c \in loaded : model_name(c) = name
    THEN Return(CHOOSE c \in loaded : model_name(c) = name)
    ELSE Raise("KeyError: " \o name)

\* the command lines of bdview
ViewArgs ==
    [viewer : BOOLEAN, restart_viewer : BOOLEAN, stop_viewer_on_exit : BOOLEAN,
     open_viewer : BOOLEAN, dest : BOOLEAN, model_name : {"example", "bogus"},
     variant_name : {"", "tall"}]

\* no callback has run
NoRun == [executed |-> FALSE, exported |-> FALSE, exc |-> "", reloaded |-> <<>>,
          seen |-> <<>>]

\* the Watcher before __call__
VwStart(prog, pc, args, listening, loaded) ==
    [prog |-> prog, pc |-> pc, args |-> args, pre |-> listening,
     listening |-> listening, cache |-> "unset", mode |-> "off", log |-> <<>>,
     probes |-> 0, answered |-> FALSE, exc |-> "", runs |-> 0,
     sys_modules |-> << <<"monobd">> >>, modules |-> <<>>, loaded |-> loaded,
     dest_exists |-> FALSE, last |-> NoRun]

\* self.ocp_viewer_process: a cached_property, looked up on first use only
ocp_viewer_process(v) ==
    IF v.cache = "unset"
    THEN [v EXCEPT !.cache = v.listening, !.log = Append(@, "lookup")]
    ELSE v

\* self.ocp_viewer_process.terminate(); psutil.wait_procs(...)
terminate(v) ==
    [v EXCEPT !.log = Append(@, "terminate:" \o v.cache),
              !.listening = IF @ = v.cache THEN "none" ELSE @]

\* subprocess.Popen(["python", "-m", "ocp_vscode"] + ...)
popen(v) == [v EXCEPT !.pc = "probing", !.mode = "started", !.log = Append(@, "popen")]

\* the finally clause of ocp_viewer
finally(v) ==
    IF ~v.args.stop_viewer_on_exit THEN v
    ELSE LET v1 == ocp_viewer_process(v)
         IN  IF v1.cache = "none" THEN v1 ELSE terminate(v1)

\* ocp_viewer when a viewer that is found listening is always replaced
ocp_viewer_always_restarting(v) ==
    LET v1 == ocp_viewer_process(v)
    IN  IF ~v.args.viewer THEN [v EXCEPT !.pc = "watching"]
        ELSE IF v1.cache = "none" THEN popen(v1)
        ELSE popen([terminate(v1) EXCEPT !.cache = "unset"])

\* ocp_viewer from its first line to its first yield, or to the Popen
ocp_viewer(v) ==
    LET v1 == ocp_viewer_process(v)
    IN  IF ~v.args.viewer THEN [v EXCEPT !.pc = "watching"]
        ELSE IF v1.cache = "none" THEN popen(v1)
        ELSE IF ~v.args.restart_viewer
        THEN [v1 EXCEPT !.pc = "watching", !.mode = "reused"]
        ELSE popen([terminate(v1) EXCEPT !.cache = "unset"])

\* the probing loop when its last failure is followed by the tab and the
\* yield, not by the exception
probe_never_failing(v) ==
    IF v.listening # "none" \/ v.probes + 1 >= MaxProbes
    THEN [v EXCEPT !.pc = "watching", !.answered = v.listening # "none",
                   !.probes = 0,
                   !.log = IF v.args.open_viewer THEN Append(@, "tab") ELSE @]
    ELSE [v EXCEPT !.probes = @ + 1]

\* one pass of 'for _ in range(100)': urlopen(url).read() answers, or
\* URLError; after the loop the tab, or the exception and the finally
probe(v) ==
    IF v.listening # "none"
    THEN [v EXCEPT !.pc = "watching", !.answered = TRUE, !.probes = 0,
                   !.log = IF v.args.open_viewer THEN Append(@, "tab") ELSE @]
    ELSE IF v.probes + 1 < MaxProbes
    THEN [v EXCEPT !.probes = @ + 1]
    ELSE finally([v EXCEPT !.probes = @ + 1, !.pc = "failed",
                           !.exc = "OCP viewer communication failed"])

\* the export of run_callback when the STL files are asked for as well
render_export_with_stl(self, fs, dest) ==
    IF dest THEN export(self, fs, TRUE, TRUE)
    ELSE [kind |-> "return", exc |-> "", files |-> fs]

\* if self.args.dest: model.export(self.args.dest, step=True, stl=False)
render_export(self, fs, dest) ==
    IF dest THEN export(self, fs, TRUE, FALSE)
    ELSE [kind |-> "return", exc |-> "", files |-> fs]

\* ocp_viewer is entered
ViewerEnter ==
    /\ vw.pc = "enter"
    /\ vw' = ocp_viewer(vw)
    /\ UNCHANGED <<entry, inst, files, ret, registry, imported, bd, rn>>

\* the process started by Popen begins to listen on the OCP port
ViewerUp ==
    /\ vw.pc = "probing" /\ vw.listening = "none"
    /\ vw' = [vw EXCEPT !.listening = "new"]
    /\ UNCHANGED <<entry, inst, files, ret, registry, imported, bd, rn>>

\* the next HTTP probe of the viewer
Probe ==
    /\ vw.pc = "probing"
    /\ vw' = probe(vw)
    /\ UNCHANGED <<entry, inst, files, ret, registry, imported, bd, rn>>

\* KeyboardInterrupt: the with block is left, ocp_viewer resumes after its
\* yield
ViewerExit ==
    /\ vw.pc = "watching" /\ vw.prog = "bdview"
    /\ vw' = IF vw.mode = "started" THEN [finally(vw) EXCEPT !.pc = "done"]
             ELSE [vw EXCEPT !.pc = "done"]
    /\ UNCHANGED <<entry, inst, files, ret, registry, imported, bd, rn>>

\* bdview's run_callback: reload_modules, the model and its variant, the
\* show calls, the export when a destination was given; exceptions caught
BdviewCallback(o) ==
    /\ vw.pc = "watching" /\ vw.prog = "bdview" /\ vw.runs < MaxRuns
    /\ Canonical(o, Len(track_modules(vw.modules, vw.sys_modules, "monobd")))
    /\ LET r == reload_modules(vw.modules, vw.sys_modules, o)
           c == models_get(vw.loaded, vw.args.model_name)
           m == variant(c.value, Str(vw.args.variant_name), TRUE)
           shown == r.kind = "return" /\ c.kind = "return"
           e == render_export(m.value, files, vw.args.dest)
           seen == SelectSeq(vw.sys_modules, LAMBDA n : is_own_module(n, "monobd"))
       IN  /\ files' = IF shown THEN e.files ELSE files
           /\ vw' = [vw EXCEPT
                        !.runs = @ + 1, !.modules = r.modules,
                        !.dest_exists = @ \/ (shown /\ vw.args.dest),
                        !.last = [executed |-> shown,
                                  exported |-> shown /\ vw.args.dest /\ e.kind = "return",
                                  exc |-> IF r.kind = "raise" THEN r.exc
                                          ELSE IF c.kind = "raise" THEN c.exc
                                          ELSE IF vw.args.dest THEN e.exc ELSE "",
                                  reloaded |-> r.reloaded, seen |-> seen]]
    /\ UNCHANGED <<entry, inst, ret, registry, imported, bd, rn>>

\* watch.py's run_callback: the reloads, outside the try, then the target's
\* main(); an exception of reload ends the runner thread
WatchCallback(o) ==
    /\ vw.pc = "watching" /\ vw.prog = "watch" /\ vw.runs < MaxRuns
    /\ Canonical(o, Len(watch_reload(vw.sys_modules, [i \in DOMAIN o |-> "ok"]).reloaded))
    /\ LET r == watch_reload(vw.sys_modules, o)
           seen == SelectSeq(vw.sys_modules, LAMBDA n : is_own_module(n, "monobd"))
       IN  vw' = [vw EXCEPT
                     !.runs = @ + 1,
                     !.pc = IF r.kind = "raise" THEN "dead" ELSE @,
                     !.last = [executed |-> r.kind = "return", exported |-> FALSE,
                               exc |-> r.exc, reloaded |-> r.reloaded, seen |-> seen]]
    /\ UNCHANGED <<entry, inst, files, ret, registry, imported, bd, rn>>

\* a module is imported: sys.modules gains a name
Import(m) ==
    /\ vw.pc = "watching"
    /\ \A i \in 1..Len(vw.sys_modules) : vw.sys_modules[i] # m
    /\ vw' = [vw EXCEPT !.sys_modules = Append(@, m)]
    /\ UNCHANGED <<entry, inst, files, ret, registry, imported, bd, rn>>

\* the outcomes of the reload calls of one run, by position
Outcomes == [1..Cardinality(ModuleNames) -> ReloadOutcomes]

\* the classes Model._models holds: those whose modules were imported
LoadedSets == {{}, {"ExampleModel", "AVRack"}}

VInit ==
    /\ entry = "bdview"
    /\ inst = NoInst
    /\ files = {}
    /\ ret = [op |-> "none"]
    /\ registry = MODELS
    /\ imported = {}
    /\ bd = BdIdle
    /\ rn = RnOff
    /\ vw \in {VwStart("bdview", "enter", a, l, ld) :
                  a \in ViewArgs, l \in {"none", "old"}, ld \in LoadedSets}

VNext ==
    \/ ViewerEnter
    \/ ViewerUp
    \/ Probe
    \/ \E o \in Outcomes : BdviewCallback(o)
    \/ ViewerExit

\* bdview from its command line to the end of its with block
ViewSpec == VInit /\ [][VNext]_vars

\* the watch loop of either program is running; bdview without a viewer
LInit ==
    /\ entry = "watcher"
    /\ inst = NoInst
    /\ files = {}
    /\ ret = [op |-> "none"]
    /\ registry = MODELS
    /\ imported = {}
    /\ bd = BdIdle
    /\ rn = RnOff
    /\ vw \in {VwStart(p, "watching",
                       [viewer |-> FALSE, restart_viewer |-> FALSE,
                        stop_viewer_on_exit |-> FALSE, open_viewer |-> FALSE,
                        dest |-> FALSE, model_name |-> "example",
                        variant_name |-> ""],
                       "none", {"ExampleModel", "AVRack"}) : p \in Programs}

LNext ==
    \/ \E m \in ModuleNames : Import(m)
    \/ \E o \in Outcomes : BdviewCallback(o)
    \/ \E o \in Outcomes : WatchCallback(o)

\* the callbacks of watch.py and bdview while modules get imported
ReloadSpec == LInit /\ [][LNext]_vars

\* ------------------------------------------------------------- properties

IsPrefix(a, b) == Len(a) <= Len(b) /\ \A i \in 1..Len(a) : a[i] = b[i]

\* the nodes of an assembly that have no child
LeafSet(t) == {n \in 1..Len(t) : \A i \in 1..Len(t) : t[i].parent # n}

\* '<model_name>' or '<model_name>-<variant_name>'
BaseName(self) ==
    IF self.variant_name = "" THEN model_name(self.cls)
    ELSE model_name(self.cls) \o "-" \o self.variant_name

\* the base name followed by the labels below the root down to n
RECURSIVE DottedName(_, _)
DottedName(self, n) ==
    IF self.assembly[n].parent = 0 THEN BaseName(self)
    ELSE DottedName(self, self.assembly[n].parent) \o "." \o self.assembly[n].label

\* two leaves of the assembly share a name, or one bears the assembly's
HasDuplicate(self) ==
    LET L == LeafSet(self.assembly)
    IN  \/ \E m \in L, n \in L : m # n /\ DottedName(self, m) = DottedName(self, n)
        \/ \E n \in L : n # 1 /\ DottedName(self, n) = BaseName(self)

\* the fields of an instance of c built from a preset
PresetFields(c, preset) ==
    [i \in 1..Len(defaults(c)) |->
        KV(defaults(c)[i].key,
           IF \E j \in 1..Len(preset) : preset[j].key = defaults(c)[i].key
           THEN preset[CHOOSE j \in 1..Len(preset) :
                            preset[j].key = defaults(c)[i].key].value
           ELSE defaults(c)[i].value)]

\* the preset of c named k
PresetOf(c, k) == variants(c)[CHOOSE i \in 1..Len(variants(c)) : variants(c)[i].key = k].value

VariantKeys(c) == {variants(c)[i].key : i \in 1..Len(variants(c))}

\* C1: Model.export(dest, step, stl) into an empty destination writes by the
\* flags only: with step one '<name>.step' per entry of export_parts and
\* without step no .step file, without stl no .stl file; a single-part model
\* leaves exactly {<model>.step}, {<model>.stl} or both, and nothing else.
C1_ExportByFlags ==
    (ret.op = "export" /\ ret.kind = "return" /\ ret.before = {}) =>
        LET t == inst.assembly
            keys == Range(DictKeys(export_parts(inst).value))
            names == {DottedName(inst, n) : n \in 1..Len(t)}
            steps == {k \o ".step" : k \in names}
            stls == {k \o ".stl" : k \in names}
        IN  /\ ret.step => /\ files \cap steps = {k \o ".step" : k \in keys}
                           /\ Cardinality(files \cap steps) = Len(export_parts(inst).value)
            /\ ~ret.step => files \cap steps = {}
            /\ ~ret.stl => files \cap stls = {}
            /\ files \subseteq steps \cup stls
            /\ Cardinality(LeafSet(t)) = 1 =>
                 files = (IF ret.step THEN {BaseName(inst) \o ".step"} ELSE {})
                    \cup (IF ret.stl THEN {BaseName(inst) \o ".stl"} ELSE {})

C1_Witness ==
    /\ ret.op = "export" /\ ret.kind = "return" /\ ret.before = {}
    /\ ret.step /\ ret.stl
    /\ inst.cls = "SimpleTestModel"
    /\ files = {"testmodel.step", "testmodel.stl"}

\* C2: for an assembly with two or more leaves the keys of export_parts are
\* the assembly's own name and, for each leaf, the labels from the root to
\* the leaf joined with '.', the root label carrying '-<variant_name>' when
\* the variant name is not empty; the mapping has (leaves + 1) entries.
C2_MultiPartKeys ==
    (ret.op = "export_parts" /\ ret.kind = "return"
        /\ Cardinality(LeafSet(inst.assembly)) >= 2) =>
        /\ Range(DictKeys(ret.value)) =
              {BaseName(inst)} \cup {DottedName(inst, n) : n \in LeafSet(inst.assembly)}
        /\ Len(ret.value) = Cardinality(LeafSet(inst.assembly)) + 1
        /\ \A i \in 1..Len(ret.value) :
              ret.value[i].key = DottedName(inst, ret.value[i].value)

C2_Witness ==
    /\ ret.op = "export_parts" /\ ret.kind = "return"
    /\ inst.cls = "ExampleModel" /\ inst.variant_name = "tall"
    /\ DictKeys(ret.value) =
          <<"example-tall", "example-tall.orange_box", "example-tall.green_box">>

\* C3: for an assembly with exactly one leaf export_parts has one entry,
\* keyed by the assembly's name (no leaf label in it), whose value is the
\* leaf part and not the enclosing assembly.
C3_SinglePart ==
    (ret.op = "export_parts" /\ Cardinality(LeafSet(inst.assembly)) = 1) =>
        /\ ret.kind = "return"
        /\ Len(ret.value) = 1
        /\ ret.value[1].key = BaseName(inst)
        /\ ret.value[1].value \in LeafSet(inst.assembly)
        /\ Len(inst.assembly) > 1 => ret.value[1].value # 1

C3_Witness ==
    /\ ret.op = "export_parts"
    /\ inst.cls = "SimpleTestModel"
    /\ ret.value = <<KV("testmodel", 2)>>

\* C4: export_parts returns no mapping in which two parts of a multi-part
\* assembly share a name: when two leaves have the same fully-qualified name
\* (or a leaf has the assembly's) it raises 'Duplicate part name <name>', and
\* export then writes no file.
C4_DuplicateNames ==
    /\ (ret.op = "export_parts" /\ Cardinality(LeafSet(inst.assembly)) >= 2) =>
          /\ HasDuplicate(inst) <=> ret.kind = "raise"
          /\ ret.kind = "raise" =>
                \E m \in LeafSet(inst.assembly), n \in LeafSet(inst.assembly) :
                    /\ m # n
                    /\ DottedName(inst, m) = DottedName(inst, n)
                    /\ ret.exc = "Duplicate part name " \o DottedName(inst, n)
          /\ ret.kind = "return" =>
                /\ \A i \in 1..Len(ret.value), j \in 1..Len(ret.value) :
                      i # j => /\ ret.value[i].key # ret.value[j].key
                               /\ ret.value[i].value # ret.value[j].value
                /\ \A n \in LeafSet(inst.assembly) :
                      \E i \in 1..Len(ret.value) : ret.value[i].value = n
    /\ (ret.op = "export" /\ Cardinality(LeafSet(inst.assembly)) >= 2) =>
          /\ HasDuplicate(inst) <=> ret.kind = "raise"
          /\ ret.kind = "raise" => files = ret.before

C4_Witness ==
    /\ ret.op = "export" /\ ret.kind = "raise"
    /\ ret.exc = "Duplicate part name m-v.a.b"
    /\ ret.step /\ ret.stl
    /\ files = {}

\* C5: all_variants() yields one instance named '' when variants() is empty,
\* and otherwise one instance per key of variants(), in the mapping's order,
\* named by its key and built with the key's preset.
C5_AllVariants ==
    ret.op = "all_variants" =>
        LET vs == variants(ret.cls)
            ys == ret.value
        IN  /\ \A i \in 1..Len(ys) : ys[i].cls = ret.cls
            /\ Len(vs) = 0 =>
                  /\ Len(ys) = 1
                  /\ ys[1].variant_name = ""
                  /\ ys[1].fields = defaults(ret.cls)
            /\ Len(vs) > 0 =>
                  /\ Len(ys) = Len(vs)
                  /\ \A i \in 1..Len(vs) :
                        /\ ys[i].variant_name = vs[i].key
                        /\ ys[i].fields = PresetFields(ret.cls, vs[i].value)
            /\ {ys[i].variant_name : i \in 1..Len(ys)} =
                  (IF Len(vs) = 0 THEN {""} ELSE VariantKeys(ret.cls))

C5_Witness ==
    /\ ret.op = "all_variants"
    /\ ret.cls = "VariantTestModel"
    /\ [i \in 1..Len(ret.value) |-> ret.value[i].variant_name] = <<"", "large", "small">>
    /\ ret.value[2].fields = <<KV("size", "20")>>

\* C6: for every key of variants() (the empty string included) variant(name)
\* returns an instance named by it whose fields are the preset's values, the
\* fields the preset does not mention being at their defaults.
C6_VariantPreset ==
    (ret.op = "variant" /\ OrEmpty(ret.name) \in VariantKeys(ret.cls)) =>
        /\ ret.kind = "return"
        /\ ret.value.cls = ret.cls
        /\ ret.value.variant_name = OrEmpty(ret.name)
        /\ ret.value.fields = PresetFields(ret.cls, PresetOf(ret.cls, OrEmpty(ret.name)))
        /\ inst = ret.value

C6_Witness ==
    /\ ret.op = "variant" /\ ret.kind = "return"
    /\ ret.cls = "ScrewHandle" /\ ret.name = Str("thin")
    /\ ret.value.variant_name = "thin"
    /\ DictGet(ret.value.fields, "thickness") = "9*MM"
    /\ DictGet(ret.value.fields, "length") = "6*IN"

\* C7: the base file name of an exported model is '<model_name>' when the
\* variant name is empty and '<model_name>-<variant_name>' otherwise; an
\* empty variant name gives no trailing '-'.
C7_BaseFileName ==
    /\ (ret.op = "export_parts" /\ ret.kind = "return") =>
          /\ ret.value[1].key = BaseName(inst)
          /\ inst.variant_name = "" => ret.value[1].key = model_name(inst.cls)
    /\ (ret.op = "export" /\ ret.kind = "return" /\ ret.before = {}) =>
          /\ ret.step =>
                /\ BaseName(inst) \o ".step" \in files
                /\ inst.variant_name = "" =>
                      (model_name(inst.cls) \o "-" \o ".step") \notin files
          /\ (ret.stl /\ Cardinality(LeafSet(inst.assembly)) = 1) =>
                /\ BaseName(inst) \o ".stl" \in files
                /\ inst.variant_name = "" =>
                      (model_name(inst.cls) \o "-" \o ".stl") \notin files

C7_Witness ==
    /\ ret.op = "export" /\ ret.kind = "return" /\ ret.before = {}
    /\ inst.cls = "VariantTestModel" /\ inst.variant_name = ""
    /\ ret.step /\ ~ret.stl
    /\ files = {"variantmodel.step"}

\* the class each name of MODELS stands for
RegisteredClass(name) ==
    CASE name = "avrack" -> "AVRack"
      [] name = "example" -> "ExampleModel"
      [] name = "poop_bag_dispenser_wall_mount" -> "PoopBagDispenserWallMount"
      [] name = "screw_handle" -> "ScrewHandle"
      [] name = "esp_3dp" -> "ESP3DP"
      [] OTHER -> ""

\* name is registered with an import path that is not empty
IsRegistered(name) ==
    \E i \in 1..Len(registry) : registry[i].key = name /\ registry[i].value # ""

\* C8: get_model(name) returns a subclass of Model for every registered
\* name, and raises KeyError('Model not found: <name>') for every name that
\* is not registered or is registered with an empty import path, importing
\* no module then.
C8_GetModel ==
    ret.op = "get_model" =>
        /\ IsRegistered(ret.name) =>
              /\ ret.kind = "return"
              /\ ret.value \in ModelClasses
              /\ ret.value = RegisteredClass(ret.name)
        /\ ~IsRegistered(ret.name) =>
              /\ ret.kind = "raise"
              /\ ret.exc = "KeyError: Model not found: " \o ret.name
              /\ imported = ret.before

C8_Witness ==
    /\ ret.op = "get_model" /\ ret.kind = "raise"
    /\ ret.name = "blank"
    /\ \E i \in 1..Len(registry) : registry[i].key = "blank"
    /\ ret.exc = "KeyError: Model not found: blank"
    /\ ret.before = {"monobd.models.pcb"}
    /\ imported = ret.before

\* the model classes bdrender's help promises for a command line
ExpectedModels(args) ==
    IF args.model_name # "" THEN <<RegisteredClass(args.model_name)>>
    ELSE IF args.render_all
    THEN [i \in 1..Len(registry) |-> RegisteredClass(registry[i].key)]
    ELSE <<>>

\* C9: bdrender renders the named model alone when a model name is given
\* (--all or not), every model of the registry once and in its order when
\* only --all is given, and nothing otherwise.
C9_RenderModels ==
    entry = "bdrender" =>
        /\ IsPrefix(bd.models, ExpectedModels(bd.args))
        /\ bd.pc = "done" => bd.models = ExpectedModels(bd.args)
        /\ \A i \in 1..Len(bd.log) : bd.log[i].cls \in Range(bd.models)
        /\ (bd.args.model_name = "" /\ ~bd.args.render_all) =>
              /\ bd.pc \in {"models", "done"}
              /\ bd.log = <<>>
              /\ files = {}
              /\ imported = {}

C9_Witness ==
    /\ entry = "bdrender" /\ bd.pc = "done"
    /\ bd.args.model_name = "" /\ bd.args.render_all
    /\ bd.models = <<"AVRack", "ExampleModel", "PoopBagDispenserWallMount",
                     "ScrewHandle", "ESP3DP">>

\* the variant names bdrender's help promises for a model class
ExpectedVariantNames(c, variant_name) ==
    IF variant_name # ""
    THEN (IF variant_name \in VariantKeys(c) THEN <<variant_name>> ELSE <<>>)
    ELSE IF Len(variants(c)) = 0 THEN <<"">>
    ELSE [i \in 1..Len(variants(c)) |-> variants(c)[i].key]

\* the <<class, variant name>> pairs promised for a sequence of classes
RECURSIVE ExpectedLog(_, _)
ExpectedLog(ms, variant_name) ==
    IF Len(ms) = 0 THEN <<>>
    ELSE LET ns == ExpectedVariantNames(Head(ms), variant_name)
         IN  [i \in 1..Len(ns) |-> <<Head(ms), ns[i]>>]
                \o ExpectedLog(Tail(ms), variant_name)

\* the files export(step=True, stl=True) of an instance leaves
RenderedFiles(self) ==
    LET L == LeafSet(self.assembly)
    IN  IF Cardinality(L) = 1
        THEN {BaseName(self) \o ".step", BaseName(self) \o ".stl"}
        ELSE {BaseName(self) \o ".step"}
                \cup {DottedName(self, n) \o ".step" : n \in L}
                \cup {DottedName(self, n) \o ".stl" : n \in L}

\* C10: without a variant name bdrender renders and exports every variant of
\* the model once; with a variant name it renders that variant alone, and a
\* name that is no key of variants() raises KeyError before anything is
\* rendered or exported for the model (never the default parameters).
C10_RenderVariants ==
    entry = "bdrender" =>
        LET got == [i \in 1..Len(bd.log) |-> <<bd.log[i].cls, bd.log[i].variant_name>>]
            want == ExpectedLog(bd.models, bd.args.variant_name)
            vn == bd.args.variant_name
        IN  /\ IsPrefix(got, want)
            /\ bd.pc \in {"models", "done"} => got = want
            /\ \A i \in 1..Len(bd.log) :
                  /\ bd.log[i].variant_name \in VariantKeys(bd.log[i].cls)
                  /\ bd.log[i].fields =
                        PresetFields(bd.log[i].cls,
                                     PresetOf(bd.log[i].cls, bd.log[i].variant_name))
                  /\ vn # "" => bd.log[i].variant_name = vn
            /\ files = UNION {RenderedFiles(bd.log[i]) : i \in 1..Len(bd.log)}
            /\ (vn # "" /\ bd.cur # "" /\ vn \notin VariantKeys(bd.cur)) =>
                  /\ bd.pc \in {"variants", "error"}
                  /\ bd.pc = "error" => bd.exc = "KeyError: " \o vn
                  /\ \A i \in 1..Len(bd.log) : bd.log[i].cls # bd.cur
                  /\ files \cap RenderedFiles(NewOf(bd.cur, "", <<>>)) = {}

C10_Witness ==
    /\ entry = "bdrender" /\ bd.pc = "error"
    /\ bd.args.model_name = "example" /\ bd.args.variant_name = "bogus"
    /\ bd.cur = "ExampleModel"
    /\ bd.exc = "KeyError: bogus"
    /\ bd.log = <<>> /\ files = {}

\* C18: exporting a multi-part model (two or more leaves) into an empty
\* destination writes an .stl for each leaf and for nothing else: the
\* assembly-level entry gets a .step only; with step and stl both set, n
\* leaves give n + 1 .step files and n .stl files. A single-part model gets
\* its .stl under the assembly's own name.
C18_StlForLeavesOnly ==
    (ret.op = "export" /\ ret.kind = "return" /\ ret.before = {} /\ ret.stl) =>
        LET t == inst.assembly
            L == LeafSet(t)
            n == Cardinality(L)
            names == {DottedName(inst, m) : m \in 1..Len(t)}
            stls == files \cap {k \o ".stl" : k \in names}
            steps == files \cap {k \o ".step" : k \in names}
        IN  /\ n >= 2 =>
                  /\ stls = {DottedName(inst, m) \o ".stl" : m \in L}
                  /\ BaseName(inst) \o ".stl" \notin files
                  /\ Cardinality(stls) = n
                  /\ ret.step => /\ Cardinality(steps) = n + 1
                                 /\ BaseName(inst) \o ".step" \in files
                                 /\ files = steps \cup stls
            /\ n = 1 => stls = {BaseName(inst) \o ".stl"}

C18_Witness ==
    /\ ret.op = "export" /\ ret.kind = "return" /\ ret.before = {}
    /\ ret.step /\ ret.stl
    /\ inst.cls = "ExampleModel" /\ inst.variant_name = "tall"
    /\ files = {"example-tall.step", "example-tall.orange_box.step",
                "example-tall.green_box.step", "example-tall.orange_box.stl",
                "example-tall.green_box.stl"}

\* C11: a callback run that follows a wait is never started sooner than
\* 'delay' after the most recent trigger() that completed before it started.
C11_DelayAfterLastTrigger == entry = "runner" => ~rn.early

\* C12: every trigger() that completes before stop() is eventually followed
\* by a callback run that starts after it (or by stop()).
C12_TriggerLeadsToRun ==
    (entry = "runner" /\ rn.unserved) ~> (~rn.unserved \/ rn.exit_event)

\* C19: the callback runs started never outnumber the trigger() calls
\* completed (plus the one run watch.py makes when its thread starts), and
\* bdview's runner runs nothing while no trigger has completed.
C19_RunsBoundedByTriggers ==
    entry = "runner" =>
        /\ rn.runs <= rn.triggers + (IF rn.prog = "watch" THEN 1 ELSE 0)
        /\ (rn.prog = "bdview" /\ rn.triggers = 0) => rn.runs = 0

C19_Witness ==
    /\ entry = "runner" /\ rn.prog = "bdview"
    /\ rn.triggers = 2 /\ rn.runs = 2 /\ rn.pc = "callback"

\* C20: once stop() has returned the runner starts no callback, and a
\* wake-up that happens after the exit event was set is not followed by one.
C20_NoRunAfterStop ==
    entry = "runner" => (~rn.run_after_stop /\ ~rn.run_after_exit_wake)

\* the times e is in the log
Count(log, e) == Cardinality({i \in 1..Len(log) : log[i] = e})

\* the modules of the package among sys_modules
OwnModules(sys_modules) ==
    {sys_modules[i] : i \in {j \in 1..Len(sys_modules) :
                                sys_modules[j][1] = "monobd"}}

C14_StopViewerOnExit ==
    (entry = "bdview" /\ vw.pc \in {"done", "failed"}
        /\ vw.args.viewer /\ vw.args.stop_viewer_on_exit) =>
        vw.listening = "none"

\* C15: with the viewer enabled and a viewer already listening,
\* --restart-viewer terminates it and then starts a new one, and without
\* the flag the running viewer is reused and none is started; with none
\* listening exactly one is started; a run never starts two.
C15_ViewerStart ==
    (entry = "bdview" /\ vw.args.viewer /\ vw.pc # "enter") =>
        /\ Count(vw.log, "popen") <= 1
        /\ (vw.pre = "old" /\ vw.args.restart_viewer) =>
              IsPrefix(<<"lookup", "terminate:old", "popen">>, vw.log)
        /\ (vw.pre = "old" /\ ~vw.args.restart_viewer) =>
              /\ Count(vw.log, "popen") = 0
              /\ vw.mode = "reused" /\ vw.pc \in {"watching", "done"}
        /\ vw.pre = "none" =>
              /\ Count(vw.log, "popen") = 1
              /\ IsPrefix(<<"lookup", "popen">>, vw.log)

C15_Witness ==
    /\ entry = "bdview" /\ vw.pc = "watching" /\ vw.pre = "old"
    /\ vw.args.viewer /\ vw.args.restart_viewer /\ ~vw.args.open_viewer
    /\ vw.log = <<"lookup", "terminate:old", "popen">>
    /\ vw.listening = "new"

\* C16: with --no-viewer nothing is looked up, started, terminated or
\* opened; with --no-browser no tab is opened; otherwise a tab is opened at
\* most once, after the Popen of this run and after a probe was answered;
\* the probes number at most 100, and when all fail the exception is raised
\* and no callback ever runs.
C16_BrowserTab ==
    entry = "bdview" =>
        /\ ~vw.args.viewer => vw.log = <<>>
        /\ ~vw.args.open_viewer => Count(vw.log, "tab") = 0
        /\ Count(vw.log, "tab") <= 1
        /\ \A i \in 1..Len(vw.log) :
              vw.log[i] = "tab" =>
                  /\ vw.answered /\ vw.mode = "started"
                  /\ \E j \in 1..(i - 1) : vw.log[j] = "popen"
        /\ vw.pc = "probing" => vw.probes < MaxProbes
        /\ vw.probes <= MaxProbes
        /\ vw.probes = MaxProbes <=> vw.pc = "failed"
        /\ vw.pc = "failed" =>
              /\ vw.exc = "OCP viewer communication failed"
              /\ vw.runs = 0 /\ ~vw.answered
              /\ Count(vw.log, "tab") = 0
        /\ (vw.args.viewer /\ vw.args.open_viewer /\ vw.mode = "started"
                /\ vw.pc \in {"watching", "done"}) => Count(vw.log, "tab") = 1

C16_Witness ==
    /\ entry = "bdview" /\ vw.pc = "watching" /\ vw.runs = 1
    /\ vw.args.viewer /\ vw.args.open_viewer
    /\ vw.log = <<"lookup", "popen", "tab">>

\* the model bdview renders: the class of that name, in the named variant
\* or, when the class has no such variant, with its defaults
ViewedModel ==
    LET c == CHOOSE k \in vw.loaded : model_name(k) = vw.args.model_name
        vn == vw.args.variant_name
    IN  IF vn \in VariantKeys(c) THEN NewOf(c, vn, PresetOf(c, vn))
        ELSE NewOf(c, "", <<>>)

\* '<name>.step' for the assembly and, when there are several, its leaves
StepFiles(self) ==
    LET L == LeafSet(self.assembly)
    IN  {BaseName(self) \o ".step"}
            \cup (IF Cardinality(L) >= 2
                  THEN {DottedName(self, n) \o ".step" : n \in L} ELSE {})

\* C17: a render of bdview exports the model exactly when a destination
\* was given, and as STEP files only; with no destination no file is
\* written and no directory is created.
C17_ExportIffDest ==
    entry = "bdview" =>
        /\ ~vw.args.dest => (files = {} /\ ~vw.dest_exists /\ ~vw.last.exported)
        /\ (vw.args.dest /\ vw.last.executed) =>
              /\ vw.last.exported /\ vw.dest_exists
              /\ files = StepFiles(ViewedModel)
        /\ files # {} => files = StepFiles(ViewedModel)

C17_Witness ==
    /\ entry = "bdview" /\ vw.args.dest /\ vw.last.exported /\ vw.dest_exists
    /\ vw.args.model_name = "example" /\ vw.args.variant_name = "tall"
    /\ files = {"example-tall.step", "example-tall.orange_box.step",
                "example-tall.green_box.step"}

\* C21: the renders of one bdrender run are of different (model, variant)
\* pairs, and no two of them write a file of the same name: with --all over
\* MODELS nothing that was exported is overwritten by a later export.
C21_NoFileWrittenTwice ==
    entry = "bdrender" =>
        /\ Len(bd.wrote) = Len(bd.log)
        /\ \A i \in 1..Len(bd.log) : \A j \in 1..Len(bd.log) :
              i # j =>
                  /\ <<bd.log[i].cls, bd.log[i].variant_name>>
                        # <<bd.log[j].cls, bd.log[j].variant_name>>
                  /\ bd.wrote[i] \cap bd.wrote[j] = {}
        /\ (bd.pc # "error" /\ bd.log # <<>>) => bd.wrote[Len(bd.wrote)] # {}

C21_Witness ==
    /\ entry = "bdrender" /\ bd.pc = "done" /\ registry = MODELS
    /\ bd.args.render_all /\ bd.args.model_name = "" /\ bd.args.variant_name = ""
    /\ bd.models = <<"AVRack", "ExampleModel", "PoopBagDispenserWallMount",
                     "ScrewHandle", "ESP3DP">>
    /\ Len(bd.wrote) = 9
    /\ files = UNION {bd.wrote[i] : i \in 1..Len(bd.wrote)}
    /\ "example-tall.step" \in files /\ "example-default.step" \in files

====
